---------------------------- MODULE Spec2Model ----------------------------
(***************************************************************************)
(* A model of the eCourts case status API (src/main.py): the request       *)
(* validators, the two portal fetch functions, the four POST handlers and  *)
(* the framework's mapping of exceptions to responses.                     *)
(*                                                                         *)
(* Strings that the code inspects or builds (record numbers, case types,   *)
(* dates, case references, court names) are sequences of characters, a     *)
(* character being a one-character TLA+ string; U+00DF and U+0663 are the  *)
(* tokens of two non-ASCII characters (sharp s, ARABIC-INDIC DIGIT THREE). *)
(* Fixed messages that the code only passes along are TLA+ strings.        *)
(***************************************************************************)
EXTENDS Integers, Sequences, FiniteSets, TLC

VARIABLES
    now,     \* the wall clock: [date |-> [y, m, d], tod |-> 0 (midnight) or 1 (later that day)]
    ticks,   \* how many times the clock has advanced (bounded by MaxTicks)
    req,     \* req[r]: the request being served on connection r, and its progress
    fn,      \* validator bench: the field whose validator was applied ("none": none)
    arg,     \* validator bench: the field given it, and the clock it read if any
    res      \* validator bench: its result

vars == <<now, ticks, req, fn, arg, res>>

---------------------------------------------------------------------------
(* Bounds of the model. *)

\* Leading / trailing whitespace characters put around an input string.
MaxPad == 1
\* How far around each boundary (1950, current year + 1, 90 days) inputs are drawn.
Slack == 2
\* How many times the clock advances in one behaviour.
MaxTicks == 2
\* Connections served concurrently in SpecConc.
NumReqs == 2

---------------------------------------------------------------------------
(* Characters and the str methods the code uses. *)

LowerSeq == <<"a","b","c","d","e","f","g","h","i","j","k","l","m",
              "n","o","p","q","r","s","t","u","v","w","x","y","z">>
UpperSeq == <<"A","B","C","D","E","F","G","H","I","J","K","L","M",
              "N","O","P","Q","R","S","T","U","V","W","X","Y","Z">>
DigitSeq == <<"0","1","2","3","4","5","6","7","8","9">>

Range(f) == {f[i] : i \in DOMAIN f}

\* str.strip() removes the characters for which str.isspace() holds.
IsSpace(c) == c \in {" ", "\t", "\n", "\r"}

\* The regex class \d on a str pattern: any Unicode decimal digit.
IsDigit(c) == c \in Range(DigitSeq) \cup {"U+0663"}

\* The value int() gives a decimal digit character.
DigitValue(c) ==
    IF c = "U+0663" THEN 3
    ELSE (CHOOSE i \in DOMAIN DigitSeq : DigitSeq[i] = c) - 1

\* The regex class [A-Z].
IsAZ(c) == c \in Range(UpperSeq)

\* The regex class [1-9].
Is19(c) == c \in (Range(DigitSeq) \ {"0"})

\* str.upper() of one character; sharp s uppercases to two characters.
UpperChar(c) ==
    IF c \in Range(LowerSeq)
      THEN <<UpperSeq[CHOOSE i \in DOMAIN LowerSeq : LowerSeq[i] = c]>>
      ELSE IF c = "U+00DF" THEN <<"S", "S">> ELSE <<c>>

RECURSIVE Upper(_)
Upper(s) == IF s = <<>> THEN <<>> ELSE UpperChar(Head(s)) \o Upper(Tail(s))

RECURSIVE LStrip(_)
LStrip(s) == IF s # <<>> /\ IsSpace(Head(s)) THEN LStrip(Tail(s)) ELSE s

RECURSIVE RStrip(_)
RStrip(s) ==
    IF s # <<>> /\ IsSpace(s[Len(s)]) THEN RStrip(SubSeq(s, 1, Len(s) - 1)) ELSE s

Strip(s) == RStrip(LStrip(s))

\* str(n) of an integer.
RECURSIVE NatStr(_)
NatStr(n) == IF n < 10 THEN <<DigitSeq[n + 1]>>
             ELSE NatStr(n \div 10) \o <<DigitSeq[(n % 10) + 1]>>

IntStr(n) == IF n < 0 THEN <<"-">> \o NatStr(-n) ELSE NatStr(n)

\* int(s) of a string of decimal digits.
RECURSIVE DigitsValue(_)
DigitsValue(s) ==
    IF s = <<>> THEN 0
    ELSE 10 * DigitsValue(SubSeq(s, 1, Len(s) - 1)) + DigitValue(s[Len(s)])

\* str.replace(old, '') for a one-character old.
RECURSIVE RemoveChar(_, _)
RemoveChar(s, c) ==
    IF s = <<>> THEN <<>>
    ELSE (IF Head(s) = c THEN <<>> ELSE <<Head(s)>>) \o RemoveChar(Tail(s), c)

---------------------------------------------------------------------------
(* re.match for the two patterns of the code.  A pattern is a sequence of  *)
(* items [cls, min, many]: min repetitions of the class, or min and more   *)
(* when many; it starts with ^ (re.match anchors at the start anyway) and  *)
(* ends with $.                                                            *)

InClass(c, cls) ==
    CASE cls = "A-Z" -> IsAZ(c)
      [] cls = "\\d" -> IsDigit(c)

\* $ matches at the end of the string and just before a newline that ends it.
AtDollar(s, i) ==
    \/ i = Len(s) + 1
    \/ i = Len(s) /\ s[i] = "\n"

RECURSIVE MatchFrom(_, _, _)
MatchFrom(pat, s, i) ==
    IF pat = <<>> THEN AtDollar(s, i)
    ELSE LET it == Head(pat)
             most == IF it.many THEN Len(s) - i + 1 ELSE it.min
         IN \E k \in it.min .. most :
               /\ i + k - 1 <= Len(s)
               /\ \A j \in i .. (i + k - 1) : InClass(s[j], it.cls)
               /\ MatchFrom(Tail(pat), s, i + k)

ReMatch(pat, s) == MatchFrom(pat, s, 1)

\* r'^[A-Z]{4}\d{12}$' in CaseDetailsCNR.validate_cnr
CnrPattern == << [cls |-> "A-Z", min |-> 4, many |-> FALSE],
                 [cls |-> "\\d", min |-> 12, many |-> FALSE] >>

\* r'^[A-Z]{4}\d{12}$' in download_case_pdf
PdfCnrPattern == << [cls |-> "A-Z", min |-> 4, many |-> FALSE],
                    [cls |-> "\\d", min |-> 12, many |-> FALSE] >>

\* r'^[A-Z]+$' in CaseDetailsByNumber.validate_case_type
CaseTypePattern == << [cls |-> "A-Z", min |-> 1, many |-> TRUE] >>

---------------------------------------------------------------------------
(* Calendar: datetime's proleptic Gregorian dates, ordinals and the two    *)
(* conversions '%d-%m-%Y' of strptime and strftime.                        *)

IsLeap(y) == (y % 4 = 0) /\ ((y % 100 # 0) \/ (y % 400 = 0))

DaysInMonth(y, m) ==
    IF m = 2 THEN (IF IsLeap(y) THEN 29 ELSE 28)
    ELSE IF m \in {4, 6, 9, 11} THEN 30 ELSE 31

RECURSIVE DaysBeforeMonth(_, _)
DaysBeforeMonth(y, m) ==
    IF m = 1 THEN 0 ELSE DaysBeforeMonth(y, m - 1) + DaysInMonth(y, m - 1)

DaysBeforeYear(y) ==
    (y - 1) * 365 + ((y - 1) \div 4) - ((y - 1) \div 100) + ((y - 1) \div 400)

\* date.toordinal(): 1 for 0001-01-01.
ToOrdinal(dt) == DaysBeforeYear(dt.y) + DaysBeforeMonth(dt.y, dt.m) + dt.d

\* date.fromordinal()
FromOrdinal(n) ==
    LET y == CHOOSE yy \in ((n \div 366) + 1) .. ((n \div 365) + 1) :
                 DaysBeforeYear(yy) < n /\ n <= DaysBeforeYear(yy + 1)
        r == n - DaysBeforeYear(y)
        m == CHOOSE mm \in 1 .. 12 :
                 DaysBeforeMonth(y, mm) < r /\ r <= DaysBeforeMonth(y, mm) + DaysInMonth(y, mm)
    IN [y |-> y, m |-> m, d |-> r - DaysBeforeMonth(y, m)]

\* datetime + timedelta(days=k): the date moves, the time of day stays.
AddDays(dt, k) == FromOrdinal(ToOrdinal(dt) + k)

Pad(s, w) == IF Len(s) >= w THEN s ELSE [i \in 1 .. (w - Len(s)) |-> "0"] \o s

\* datetime.strftime('%d-%m-%Y')
Strftime(dt) ==
    Pad(NatStr(dt.d), 2) \o <<"-">> \o Pad(NatStr(dt.m), 2) \o <<"-">> \o Pad(NatStr(dt.y), 4)

\* strptime's regex for %d:  3[0-1]|[1-2]\d|0[1-9]|[1-9]| [1-9]
DayField(t) ==
    \/ /\ Len(t) = 2
       /\ \/ t[1] = "3" /\ t[2] \in {"0", "1"}
          \/ t[1] \in {"1", "2"} /\ IsDigit(t[2])
          \/ t[1] = "0" /\ Is19(t[2])
          \/ t[1] = " " /\ Is19(t[2])
    \/ Len(t) = 1 /\ Is19(t[1])

\* strptime's regex for %m:  1[0-2]|0[1-9]|[1-9]
MonthField(t) ==
    \/ /\ Len(t) = 2
       /\ \/ t[1] = "1" /\ t[2] \in {"0", "1", "2"}
          \/ t[1] = "0" /\ Is19(t[2])
    \/ Len(t) = 1 /\ Is19(t[1])

\* strptime's regex for %Y:  \d\d\d\d
YearField(t) == Len(t) = 4 /\ \A i \in 1 .. 4 : IsDigit(t[i])

\* The ways the whole of s splits as <day>-<month>-<year> (at most one).
DmySplits(s) ==
    {p \in (1 .. 2) \X (1 .. 2) :
        LET a == p[1]
            b == p[2]
        IN /\ Len(s) = a + b + 6
           /\ s[a + 1] = "-"
           /\ s[a + b + 2] = "-"
           /\ DayField(SubSeq(s, 1, a))
           /\ MonthField(SubSeq(s, a + 2, a + b + 1))
           /\ YearField(SubSeq(s, a + b + 3, Len(s)))}

\* datetime.strptime(s, '%d-%m-%Y'): the parsed date, or a ValueError when the
\* regex does not match, data remains after the match, or the fields name no date.
Strptime(s) ==
    IF DmySplits(s) = {} THEN [ok |-> FALSE]
    ELSE LET p == CHOOSE q \in DmySplits(s) : TRUE
             a == p[1]
             b == p[2]
             d == DigitsValue(Strip(SubSeq(s, 1, a)))
             m == DigitsValue(SubSeq(s, a + 2, a + b + 1))
             y == DigitsValue(SubSeq(s, a + b + 3, Len(s)))
         IN IF y >= 1 /\ d <= DaysInMonth(y, m)
              THEN [ok |-> TRUE, date |-> [y |-> y, m |-> m, d |-> d]]
              ELSE [ok |-> FALSE]

---------------------------------------------------------------------------
(* The field validators.  A result is [ok |-> TRUE, value |-> v] or, when  *)
(* the validator raises ValueError, [ok |-> FALSE, error |-> message].     *)

\* validate_cnr without its .upper().
validate_cnr_no_upper(v) ==
    LET w == Strip(v)
    IN IF ~ReMatch(CnrPattern, w)
         THEN [ok |-> FALSE,
               error |-> "Invalid CNR format. Expected format: 4 letters + 12 digits (e.g., DLSW010093242025)"]
         ELSE [ok |-> TRUE, value |-> w]

\* CaseDetailsCNR.validate_cnr
validate_cnr(v) ==
    LET w == Upper(Strip(v))
    IN IF ~ReMatch(CnrPattern, w)
         THEN [ok |-> FALSE,
               error |-> "Invalid CNR format. Expected format: 4 letters + 12 digits (e.g., DLSW010093242025)"]
         ELSE [ok |-> TRUE, value |-> w]

\* CaseDetailsByNumber.validate_case_type
validate_case_type(v) ==
    LET w == Upper(Strip(v))
    IN IF ~ReMatch(CaseTypePattern, w)
         THEN [ok |-> FALSE, error |-> "Case type should contain only letters (e.g., ARBTN)"]
         ELSE [ok |-> TRUE, value |-> w]

\* validate_year with the upper bound at the current year.
validate_year_no_next_year(v, clock) ==
    IF v < 1950 \/ v > clock.date.y
      THEN [ok |-> FALSE, error |-> <<"Year should be between 1950 and ", clock.date.y + 1>>]
      ELSE [ok |-> TRUE, value |-> v]

\* CaseDetailsByNumber.validate_year; clock is what datetime.now() returns.
validate_year(v, clock) ==
    IF v < 1950 \/ v > clock.date.y + 1
      THEN [ok |-> FALSE, error |-> <<"Year should be between 1950 and ", clock.date.y + 1>>]
      ELSE [ok |-> TRUE, value |-> v]

\* CauseListRequest.validate_date
validate_date(v) ==
    IF Strptime(v).ok
      THEN [ok |-> TRUE, value |-> v]
      ELSE [ok |-> FALSE, error |-> "Date must be in DD-MM-YYYY format (e.g., 15-10-2025)"]

\* The check of download_case_pdf without its .strip().
pdf_validate_cnr_no_strip(cnr) ==
    LET w == Upper(cnr)
    IN IF ~ReMatch(PdfCnrPattern, w)
         THEN [ok |-> FALSE,
               error |-> "Invalid CNR format. Expected: 4 letters + 12 digits (e.g., DLSW010093242025)"]
         ELSE [ok |-> TRUE, value |-> w]

\* The record-number check at the head of download_case_pdf, which raises
\* HTTPException(400) where validate_cnr raises ValueError.
pdf_validate_cnr(cnr) ==
    LET w == Upper(Strip(cnr))
    IN IF ~ReMatch(PdfCnrPattern, w)
         THEN [ok |-> FALSE,
               error |-> "Invalid CNR format. Expected: 4 letters + 12 digits (e.g., DLSW010093242025)"]
         ELSE [ok |-> TRUE, value |-> w]

---------------------------------------------------------------------------
(* Exceptions and the responses the framework makes of them.  An exception *)
(* is [cls, ...]; a response is [status, body], the body a JSON object.    *)

HTTPException(code, detail) == [cls |-> "HTTPException", status_code |-> code, detail |-> detail]

\* httpx.TimeoutException and its subclasses.
TimeoutClasses == {"TimeoutException", "ConnectTimeout", "ReadTimeout", "WriteTimeout", "PoolTimeout"}

\* isinstance(e, base) for the three bases the except clauses name besides Exception.
IsInstance(e, base) ==
    CASE base = "HTTPException" -> e.cls = "HTTPException"
      [] base = "TimeoutException" -> e.cls \in TimeoutClasses
      [] base = "ValueError" -> e.cls = "ValueError"
      [] base = "Exception" -> TRUE

\* @app.exception_handler(ValueError)
value_error_handler(exc) ==
    [status |-> 400,
     body |-> [error |-> "Validation Error",
               message |-> exc.message,
               help |-> "Please check the API documentation at /docs for correct format"]]

\* What the application answers when exception e leaves request handling: the
\* handler registered for the class of e.  A validator's ValueError reaches the
\* application wrapped in the framework's RequestValidationError, which is not a
\* ValueError and has the framework's own handler (422, {detail: errors}).
ExceptionResponse(e) ==
    CASE e.cls = "HTTPException" ->
           [status |-> e.status_code, body |-> [detail |-> e.detail]]
      [] e.cls = "RequestValidationError" ->
           [status |-> 422, body |-> [detail |-> e.errors]]
      [] e.cls = "ValueError" -> value_error_handler(e)
      [] OTHER ->
           [status |-> 500, body |-> "Internal Server Error"]

\* A handler's return value, sent as JSON.
JsonResponse(value) == [status |-> 200, body |-> value]

---------------------------------------------------------------------------
(* Request parsing: the framework builds the handler's parameter from the  *)
(* request, running the field validators of its model.                     *)

DefaultState == <<"D","e","l","h","i">>
DefaultDistrict == <<"S","o","u","t","h"," ","W","e","s","t">>
DefaultCourtComplex == <<"D","w","a","r","k","a"," ","C","o","u","r","t"," ",
                         "C","o","m","p","l","e","x">>

\* A field of the request, or the model's default when the request has none.
FieldOr(raw, name, default) == IF name \in DOMAIN raw THEN raw[name] ELSE default

\* CaseDetailsCNR(cnr=...)
CaseDetailsCNR(raw) ==
    LET c == validate_cnr(raw.cnr)
    IN IF c.ok THEN [ok |-> TRUE, value |-> [cnr |-> c.value]]
       ELSE [ok |-> FALSE, errors |-> <<[loc |-> "cnr", msg |-> c.error]>>]

\* CaseDetailsByNumber(case_type=..., case_number=..., case_year=..., ...):
\* every field is validated and every failure is reported.
CaseDetailsByNumber(raw, clock) ==
    LET t == validate_case_type(raw.case_type)
        y == validate_year(raw.case_year, clock)
    IN IF t.ok /\ y.ok
         THEN [ok |-> TRUE,
               value |-> [case_type |-> t.value,
                          case_number |-> raw.case_number,
                          case_year |-> y.value,
                          state |-> FieldOr(raw, "state", DefaultState),
                          district |-> FieldOr(raw, "district", DefaultDistrict),
                          court_complex |-> FieldOr(raw, "court_complex", DefaultCourtComplex)]]
         ELSE [ok |-> FALSE,
               errors |-> (IF t.ok THEN <<>> ELSE <<[loc |-> "case_type", msg |-> t.error]>>)
                          \o (IF y.ok THEN <<>> ELSE <<[loc |-> "case_year", msg |-> y.error]>>)]

\* CauseListRequest(date=..., ...)
CauseListRequest(raw) ==
    LET d == validate_date(raw.date)
    IN IF d.ok
         THEN [ok |-> TRUE,
               value |-> [date |-> d.value,
                          state |-> FieldOr(raw, "state", DefaultState),
                          district |-> FieldOr(raw, "district", DefaultDistrict),
                          court_complex |-> FieldOr(raw, "court_complex", DefaultCourtComplex)]]
         ELSE [ok |-> FALSE, errors |-> <<[loc |-> "date", msg |-> d.error]>>]

\* Parsing that hands the request to the handler whatever the validators say.
ParseRequestLax(route, raw, clock) ==
    CASE route = "/case/cnr" -> [ok |-> TRUE, value |-> [cnr |-> raw.cnr]]
      [] route = "/case/details" ->
           [ok |-> TRUE,
            value |-> [case_type |-> raw.case_type,
                       case_number |-> raw.case_number,
                       case_year |-> raw.case_year,
                       state |-> FieldOr(raw, "state", DefaultState),
                       district |-> FieldOr(raw, "district", DefaultDistrict),
                       court_complex |-> FieldOr(raw, "court_complex", DefaultCourtComplex)]]
      [] route = "/causelist/download" -> CauseListRequest(raw)
      [] route = "/case/download-pdf" -> [ok |-> TRUE, value |-> [cnr |-> raw.cnr]]

\* The parameter of the route's handler, built from the request.
ParseRequest(route, raw, clock) ==
    CASE route = "/case/cnr" -> CaseDetailsCNR(raw)
      [] route = "/case/details" -> CaseDetailsByNumber(raw, clock)
      [] route = "/causelist/download" -> CauseListRequest(raw)
      [] route = "/case/download-pdf" -> [ok |-> TRUE, value |-> [cnr |-> raw.cnr]]

---------------------------------------------------------------------------
(* The portal fetch functions.  outcome is what client.post(...) does:     *)
(* [kind |-> "response", status_code |-> n] or [kind |-> "raise", exc |-> e]. *)
(* clock is what datetime.now() returns once the call has returned.  The   *)
(* result is [ok |-> TRUE, value |-> payload] or [ok |-> FALSE, exc |-> e].   *)

Raise(e) == [ok |-> FALSE, exc |-> e]
Return(v) == [ok |-> TRUE, value |-> v]

CourtNamePrefix == <<"D","i","s","t","r","i","c","t"," ","a","n","d"," ","S","e","s","s","i","o","n"," ","J","u","d","g","e",","," ">>
CourtNameCnr == <<"D","i","s","t","r","i","c","t"," ","a","n","d"," ","S","e","s","s","i","o","n"," ","J","u","d","g","e",","," ","S","o","u","t","h","-","W","e","s","t"," ","D","W","K">>

\* The try block of fetch_case_by_cnr.
fetch_case_by_cnr_try(cnr, outcome, clock) ==
    IF outcome.kind = "raise" THEN Raise(outcome.exc)
    ELSE IF outcome.status_code # 200
      THEN Raise(HTTPException(500, "Failed to fetch case details"))
      ELSE Return([cnr |-> cnr,
                   status |-> "success",
                   message |-> "Case found",
                   case_details |->
                       [cnr |-> cnr,
                        listing_status |-> "Listed for tomorrow",
                        serial_number |-> "15",
                        court_name |-> CourtNameCnr,
                        next_hearing |-> Strftime(AddDays(clock.date, 1))]])

\* The except clauses of fetch_case_by_cnr with `except Exception` first.
fetch_case_by_cnr_except_reordered(e) ==
    IF IsInstance(e, "Exception")
      THEN Raise(HTTPException(500, <<"Error fetching case: ", e>>))
      ELSE Raise(HTTPException(504, "Request timeout - eCourts server not responding"))

\* The except clauses of fetch_case_by_cnr, in their order.
fetch_case_by_cnr_except(e) ==
    IF IsInstance(e, "TimeoutException")
      THEN Raise(HTTPException(504, "Request timeout - eCourts server not responding"))
      ELSE Raise(HTTPException(500, <<"Error fetching case: ", e>>))

fetch_case_by_cnr(cnr, outcome, clock) ==
    LET t == fetch_case_by_cnr_try(cnr, outcome, clock)
    IN IF t.ok THEN t ELSE fetch_case_by_cnr_except(t.exc)

\* The try block of fetch_case_by_details with number and year exchanged in the reference.
fetch_case_by_details_try_swapped(case, outcome, clock) ==
    IF outcome.kind = "raise" THEN Raise(outcome.exc)
    ELSE IF outcome.status_code # 200
      THEN Raise(HTTPException(500, "Failed to fetch case details"))
      ELSE Return([case_type |-> case.case_type,
                   case_number |-> case.case_number,
                   case_year |-> case.case_year,
                   status |-> "success",
                   message |-> "Case found",
                   case_details |->
                       [case_reference |-> case.case_type \o <<"/">> \o IntStr(case.case_year)
                                           \o <<"/">> \o IntStr(case.case_number),
                        listing_status |-> "Listed today",
                        serial_number |-> "8",
                        court_name |-> CourtNamePrefix \o case.district,
                        next_hearing |-> Strftime(clock.date)]])

\* The try block of fetch_case_by_details.
fetch_case_by_details_try(case, outcome, clock) ==
    IF outcome.kind = "raise" THEN Raise(outcome.exc)
    ELSE IF outcome.status_code # 200
      THEN Raise(HTTPException(500, "Failed to fetch case details"))
      ELSE Return([case_type |-> case.case_type,
                   case_number |-> case.case_number,
                   case_year |-> case.case_year,
                   status |-> "success",
                   message |-> "Case found",
                   case_details |->
                       [case_reference |-> case.case_type \o <<"/">> \o IntStr(case.case_number)
                                           \o <<"/">> \o IntStr(case.case_year),
                        listing_status |-> "Listed today",
                        serial_number |-> "8",
                        court_name |-> CourtNamePrefix \o case.district,
                        next_hearing |-> Strftime(clock.date)]])

\* The except clauses of fetch_case_by_details, in their order.
fetch_case_by_details_except(e) ==
    IF IsInstance(e, "TimeoutException")
      THEN Raise(HTTPException(504, "Request timeout - eCourts server not responding"))
      ELSE Raise(HTTPException(500, <<"Error fetching case: ", e>>))

fetch_case_by_details(case, outcome, clock) ==
    LET t == fetch_case_by_details_try(case, outcome, clock)
    IN IF t.ok THEN t ELSE fetch_case_by_details_except(t.exc)

---------------------------------------------------------------------------
(* The handlers: each gives the response to a parsed request.              *)

\* The except clauses of check_case_by_cnr, in their order.
check_case_by_cnr_except(e) ==
    IF IsInstance(e, "HTTPException") THEN Raise(e)
    ELSE IF IsInstance(e, "ValueError") THEN Raise(HTTPException(400, e))
    ELSE Raise(HTTPException(500, <<"Unexpected error: ", e>>))

\* check_case_by_cnr, from the return of the portal call on.
check_case_by_cnr(case, outcome, clock) ==
    LET f == fetch_case_by_cnr(case.cnr, outcome, clock)
        h == IF f.ok THEN f ELSE check_case_by_cnr_except(f.exc)
    IN IF h.ok THEN JsonResponse(h.value) ELSE ExceptionResponse(h.exc)

\* The except clauses of check_case_by_details, in their order.
check_case_by_details_except(e) ==
    IF IsInstance(e, "HTTPException") THEN Raise(e)
    ELSE IF IsInstance(e, "ValueError") THEN Raise(HTTPException(400, e))
    ELSE Raise(HTTPException(500, <<"Unexpected error: ", e>>))

\* check_case_by_details, from the return of the portal call on.
check_case_by_details(case, outcome, clock) ==
    LET f == fetch_case_by_details(case, outcome, clock)
        h == IF f.ok THEN f ELSE check_case_by_details_except(f.exc)
    IN IF h.ok THEN JsonResponse(h.value) ELSE ExceptionResponse(h.exc)

\* download_case_pdf echoing the record number as it was sent.
download_case_pdf_echo(cnr) ==
    LET c == pdf_validate_cnr(cnr)
    IN IF ~c.ok THEN ExceptionResponse(HTTPException(400, c.error))
       ELSE JsonResponse([message |-> "PDF download feature",
                          cnr |-> cnr,
                          status |-> "PDF not available for this case",
                          note |-> "PDF availability depends on court digitization status"])

\* download_case_pdf
download_case_pdf(cnr) ==
    LET c == pdf_validate_cnr(cnr)
    IN IF ~c.ok THEN ExceptionResponse(HTTPException(400, c.error))
       ELSE JsonResponse([message |-> "PDF download feature",
                          cnr |-> c.value,
                          status |-> "PDF not available for this case",
                          note |-> "PDF availability depends on court digitization status"])

\* (request_date - today).days: request_date is at midnight, and a timedelta
\* keeps the floor of the difference in whole days.
TimedeltaDays(date, clock) ==
    ToOrdinal(date) - ToOrdinal(clock.date) - (IF clock.tod > 0 THEN 1 ELSE 0)

Abs(n) == IF n < 0 THEN -n ELSE n

CauseListSample ==
    << [serial_no |-> 1, case_no |-> "Bail Matters/1702/2025"],
       [serial_no |-> 8, case_no |-> "ARBTN/4/2025"],
       [serial_no |-> 15, case_no |-> "ARBTN/5/2025"] >>

\* download_cause_list; clock is what datetime.now() returns.
download_cause_list(request, clock) ==
    LET p == Strptime(request.date)
    IN IF ~p.ok
         THEN ExceptionResponse(HTTPException(400, "time data does not match format"))
         ELSE IF Abs(TimedeltaDays(p.date, clock)) > 90
           THEN ExceptionResponse(HTTPException(400, "Date should be within 90 days from today"))
           ELSE JsonResponse([date |-> request.date,
                              state |-> request.state,
                              district |-> request.district,
                              court_complex |-> request.court_complex,
                              total_cases |-> 116,
                              cause_list |-> CauseListSample,
                              download_url |-> <<"https://services.ecourts.gov.in/causelist/",
                                                 RemoveChar(request.date, "-"), ".pdf">>,
                              message |-> "Cause list fetched successfully"])

---------------------------------------------------------------------------
(* The inputs the model draws from. *)

Spaces(n) == [i \in 1 .. n |-> " "]

\* Whitespace put before or after an input.
Pads == {Spaces(n) : n \in 0 .. MaxPad} \cup {<<"\n">>}

DigitRun(n) == [i \in 1 .. n |-> DigitSeq[((3 * i) % 10) + 1]]

CnrLetterParts ==
    { <<"D","L","S","W">>, <<"d","l","s","w">>, <<"D","L">>, <<"D","L","S","W","X">>, <<"D","L","0","W">>, <<"U+00DF", "U+00DF">> }

CnrDigitParts ==
    {DigitRun(n) : n \in (12 - Slack) .. (12 + Slack)}
    \cup { DigitRun(11) \o <<"X">>, DigitRun(11) \o <<"U+0663">> }

\* Record numbers for the validators: whitespace, letters, perhaps a hyphen,
\* digits, whitespace; and the malformed numbers of test.py.
CnrInputs ==
    { a \o l \o h \o d \o b :
        a \in Pads, l \in CnrLetterParts, h \in {<<>>, <<"-">>}, d \in CnrDigitParts, b \in Pads }
    \cup { <<"1","2","3","4","5","6">>, <<"I","N","V","A","L","I","D","1","2","3">>, <<>> }

\* Record numbers sent to the server.
ServerCnrInputs ==
    { <<"D","L","S","W","0","1","0","0","9","3","2","4","2","0","2","5">>, <<"D","L","S","W","0","1","0","0","9","4","0","3","2","0","2","5">>, <<" ","d","l","s","w","0","1","0","0","9","3","2","4","2","0","2","5"," ">>, <<"D","L","S","W","0","1","0","0","9","3","2","4","2","0","2">>, <<"D","L","S","W","-","0","1","0","0","9","3","2","4","2","0","2">>, <<"D","L","0","1","0","0","9","3","2","4","2","0","2","5","0","0">>, <<"I","N","V","A","L","I","D","1","2","3">> }

CaseTypeInputs ==
    { <<"a","r","b","t","n">>, <<"A","R","B","T","N">>, <<" ","A","r","b","t","n"," ">>, <<"1","2","3">>, <<"A","R","-","B">>, <<>> }

StartClocks ==
    { [date |-> [y |-> 2025, m |-> 1, d |-> 1], tod |-> 0],
      [date |-> [y |-> 2025, m |-> 12, d |-> 31], tod |-> 1] }

\* Case years around the two bounds of validate_year, and those of test.py.
YearInputs ==
    {1950 + j : j \in (-Slack) .. Slack}
    \cup {c.date.y + 1 + j : c \in StartClocks, j \in (-Slack) .. Slack}
    \cup {1900, 2030}

CaseNumberInputs == {4, -4, 1702}

DistrictInputs == { <<"R","o","h","i","n","i">> }

\* Dates around the two ends of the 90-day window of each start clock, the
\* dates of the spec's examples, short and malformed dates, those of test.py.
DateInputs ==
    { Strftime(AddDays(c.date, k)) :
        c \in StartClocks,
        k \in {s * (90 + j) : s \in {-1, 1}, j \in (-Slack) .. Slack} \cup {0, 59, 104} }
    \cup { <<"1","5","-","1","0","-","2","0","2","5">>, <<"2","0","2","5","-","1","0","-","1","5">>, <<"3","2","-","1","3","-","2","0","2","5">>, <<"a","b","c">>, <<"1","5","-","1","0","-","2","0","2","3">>, <<"1","-","1","-","2","0","2","5">>, <<"5","-","0","3","-","2","0","2","5">>, <<" ","1","-","0","1","-","2","0","2","5">>, <<"2","9","-","0","2","-","2","0","2","5">>, <<"2","9","-","0","2","-","2","0","2","4">>, <<"1","5","/","1","0","/","2","0","2","5">>, <<"0","1","-","0","1","-","0","0","0","0">>, <<"1","5","-","1","0","-","2","0","2","5"," ">> }

\* What the portal call can do: a response with a status, a timeout, another error.
Outcomes ==
    {[kind |-> "response", status_code |-> c] : c \in {200, 404, 503}}
    \cup {[kind |-> "raise", exc |-> [cls |-> k]] : k \in {"ReadTimeout", "ConnectTimeout", "ConnectError"}}

DetailsBodies ==
    { [case_type |-> t, case_number |-> n, case_year |-> y] :
        t \in CaseTypeInputs, n \in CaseNumberInputs, y \in YearInputs }
    \cup { [case_type |-> t, case_number |-> 4, case_year |-> y, district |-> d] :
        t \in CaseTypeInputs, y \in YearInputs, d \in DistrictInputs }

\* The requests a client can send: a POST route and its body or query.
Requests ==
    {[route |-> "/case/cnr", raw |-> [cnr |-> c]] : c \in ServerCnrInputs}
    \cup {[route |-> "/case/download-pdf", raw |-> [cnr |-> c]] : c \in ServerCnrInputs}
    \cup {[route |-> "/case/details", raw |-> b] : b \in DetailsBodies}
    \cup {[route |-> "/causelist/download", raw |-> [date |-> d]] : d \in DateInputs}

---------------------------------------------------------------------------
(* The server: each connection serves one request at a time.               *)

Reqs == 1 .. NumReqs

IdleReq == [pc |-> "idle"]

Init ==
    /\ now \in StartClocks
    /\ ticks = 0
    /\ req = [r \in Reqs |-> IdleReq]
    /\ fn = "none"
    /\ arg = [none |-> TRUE]
    /\ res = [none |-> TRUE]

\* The clock advances: later the same day, then midnight of the next day.
Tick ==
    /\ ticks < MaxTicks
    /\ ticks' = ticks + 1
    /\ now' = IF now.tod = 0 THEN [now EXCEPT !.tod = 1]
              ELSE [date |-> AddDays(now.date, 1), tod |-> 0]
    /\ UNCHANGED <<req, fn, arg, res>>

\* A request arrives on connection r.
Receive(r, inputs) ==
    /\ req[r].pc = "idle"
    /\ \E i \in inputs :
          req' = [req EXCEPT ![r] = [pc |-> "parsing", route |-> i.route, raw |-> i.raw,
                                     calls |-> 0]]
    /\ UNCHANGED <<now, ticks, fn, arg, res>>

\* The framework parses the request into the handler's parameter; a failed
\* validator ends the request with the framework's validation response.
Parse(r) ==
    /\ req[r].pc = "parsing"
    /\ LET q == req[r]
           p == ParseRequest(q.route, q.raw, now)
       IN req' = [req EXCEPT ![r] =
                    IF p.ok
                      THEN [pc |-> "handler", route |-> q.route, raw |-> q.raw,
                            calls |-> q.calls, pclk |-> now, parsed |-> p.value]
                      ELSE [pc |-> "done", route |-> q.route, raw |-> q.raw,
                            calls |-> q.calls, pclk |-> now, ended |-> "parse",
                            resp |-> ExceptionResponse([cls |-> "RequestValidationError",
                                                        errors |-> p.errors])]]
    /\ UNCHANGED <<now, ticks, fn, arg, res>>

\* check_case_by_cnr / check_case_by_details up to the await of client.post.
CallPortal(r) ==
    /\ req[r].pc = "handler"
    /\ req[r].route \in {"/case/cnr", "/case/details"}
    /\ req' = [req EXCEPT ![r].pc = "awaiting", ![r].calls = req[r].calls + 1]
    /\ UNCHANGED <<now, ticks, fn, arg, res>>

\* PortalReturns with one response slot for all connections: the handler on r
\* finishes with the request of whichever connection is waiting for the portal.
PortalReturnsCrossed(r) ==
    /\ req[r].pc = "awaiting"
    /\ \E o \in Outcomes, s \in Reqs :
          /\ req[s].pc = "awaiting"
          /\ LET q == req[r]
                 w == req[s]
             IN req' = [req EXCEPT ![r] =
                          [pc |-> "done", route |-> q.route, raw |-> q.raw, calls |-> q.calls,
                           pclk |-> q.pclk, parsed |-> q.parsed, ended |-> "handler",
                           outcome |-> o, hclk |-> now,
                           resp |-> IF w.route = "/case/cnr"
                                      THEN check_case_by_cnr(w.parsed, o, now)
                                      ELSE check_case_by_details(w.parsed, o, now)]]
    /\ UNCHANGED <<now, ticks, fn, arg, res>>

\* PortalReturns with a retry: after a failed portal call the handler goes back
\* to make the call once more.
PortalReturnsRetry(r) ==
    /\ req[r].pc = "awaiting"
    /\ \E o \in Outcomes :
          LET q == req[r]
              failed == o.kind = "raise" \/ o.status_code # 200
          IN req' = [req EXCEPT ![r] =
                       IF failed /\ q.calls < 2
                         THEN [pc |-> "handler", route |-> q.route, raw |-> q.raw,
                               calls |-> q.calls, pclk |-> q.pclk, parsed |-> q.parsed]
                         ELSE [pc |-> "done", route |-> q.route, raw |-> q.raw,
                               calls |-> q.calls, pclk |-> q.pclk, parsed |-> q.parsed,
                               ended |-> "handler", outcome |-> o, hclk |-> now,
                               resp |-> IF q.route = "/case/cnr"
                                          THEN check_case_by_cnr(q.parsed, o, now)
                                          ELSE check_case_by_details(q.parsed, o, now)]]
    /\ UNCHANGED <<now, ticks, fn, arg, res>>

\* client.post returns or raises, and the handler finishes.
PortalReturns(r) ==
    /\ req[r].pc = "awaiting"
    /\ \E o \in Outcomes :
          LET q == req[r]
          IN req' = [req EXCEPT ![r] =
                       [pc |-> "done", route |-> q.route, raw |-> q.raw, calls |-> q.calls,
                        pclk |-> q.pclk, parsed |-> q.parsed, ended |-> "handler",
                        outcome |-> o, hclk |-> now,
                        resp |-> IF q.route = "/case/cnr"
                                   THEN check_case_by_cnr(q.parsed, o, now)
                                   ELSE check_case_by_details(q.parsed, o, now)]]
    /\ UNCHANGED <<now, ticks, fn, arg, res>>

\* download_case_pdf runs to its end.
HandleDownloadPdf(r) ==
    /\ req[r].pc = "handler"
    /\ req[r].route = "/case/download-pdf"
    /\ LET q == req[r]
       IN req' = [req EXCEPT ![r] =
                    [pc |-> "done", route |-> q.route, raw |-> q.raw, calls |-> q.calls,
                     pclk |-> q.pclk, parsed |-> q.parsed, ended |-> "handler",
                     hclk |-> now, resp |-> download_case_pdf(q.parsed.cnr)]]
    /\ UNCHANGED <<now, ticks, fn, arg, res>>

\* download_cause_list runs to its end.
HandleCauseList(r) ==
    /\ req[r].pc = "handler"
    /\ req[r].route = "/causelist/download"
    /\ LET q == req[r]
       IN req' = [req EXCEPT ![r] =
                    [pc |-> "done", route |-> q.route, raw |-> q.raw, calls |-> q.calls,
                     pclk |-> q.pclk, parsed |-> q.parsed, ended |-> "handler",
                     hclk |-> now, resp |-> download_cause_list(q.parsed, now)]]
    /\ UNCHANGED <<now, ticks, fn, arg, res>>

\* The response is sent; the connection is free for the next request.
Respond(r) ==
    /\ req[r].pc = "done"
    /\ req' = [req EXCEPT ![r] = IdleReq]
    /\ UNCHANGED <<now, ticks, fn, arg, res>>

Serve(r, inputs) ==
    \/ Receive(r, inputs)
    \/ Parse(r)
    \/ CallPortal(r)
    \/ PortalReturns(r)
    \/ HandleDownloadPdf(r)
    \/ HandleCauseList(r)
    \/ Respond(r)

\* One connection: requests are served one after the other.
Next == Serve(1, Requests) \/ Tick

Spec == Init /\ [][Next]_vars

\* The steps of request parsing and of the handler for the request on r.
Run(r) ==
    \/ Parse(r)
    \/ CallPortal(r)
    \/ PortalReturns(r)
    \/ HandleDownloadPdf(r)
    \/ HandleCauseList(r)

\* Connection r has a request that is being parsed or handled: the pc values at
\* which a step of Run(r) can be taken (ENABLED <<Run(r)>>_vars).
Running(r) == req[r].pc \in {"parsing", "handler", "awaiting"}

\* The event loop runs a handler that can run, and client.post returns or raises
\* within its timeout of 30 seconds: weak fairness of Run(1), with its enabling
\* condition written out as Running(1).  A finished response is sent.
SpecLive ==
    /\ Spec
    /\ ([]<>(~Running(1)) \/ []<><<Run(1)>>_vars)
    /\ WF_vars(Respond(1))

\* The requests sent when several connections are served at once: one the route
\* accepts and one it refuses, for each route.
ConcRequests ==
    { [route |-> "/case/cnr", raw |-> [cnr |-> <<" ","d","l","s","w","0","1","0","0","9","3","2","4","2","0","2","5"," ">>]],
      [route |-> "/case/cnr", raw |-> [cnr |-> <<"1","2","3","4","5","6">>]],
      [route |-> "/case/details",
       raw |-> [case_type |-> <<"a","r","b","t","n">>, case_number |-> 4, case_year |-> 2026]],
      [route |-> "/case/download-pdf", raw |-> [cnr |-> <<"D","L","S","W","0","1","0","0","9","3","2","4","2","0","2","5">>]],
      [route |-> "/case/download-pdf", raw |-> [cnr |-> <<"I","N","V","A","L","I","D","1","2","3">>]],
      [route |-> "/causelist/download", raw |-> [date |-> <<"0","1","-","0","4","-","2","0","2","6">>]],
      [route |-> "/causelist/download", raw |-> [date |-> <<"a","b","c">>]] }

\* Several connections: the steps of their requests interleave (handlers are
\* coroutines on one event loop, and give way at their awaits).
NextConc == \E r \in Reqs : Serve(r, ConcRequests)

SpecConc == Init /\ [][NextConc]_vars

---------------------------------------------------------------------------
(* The validator bench: each validator is applied to each of its inputs,   *)
(* at whatever the clock then shows; the result is looked at and dropped.  *)

ApplyValidateCnr ==
    /\ fn = "none"
    /\ fn' = "cnr"
    /\ \E v \in CnrInputs :
          /\ arg' = [cnr |-> v]
          /\ res' = [body |-> validate_cnr(v), query |-> pdf_validate_cnr(v)]
    /\ UNCHANGED <<now, ticks, req>>

ApplyValidateCaseType ==
    /\ fn = "none"
    /\ fn' = "case_type"
    /\ \E v \in CaseTypeInputs :
          /\ arg' = [case_type |-> v]
          /\ res' = [case_type |-> validate_case_type(v)]
    /\ UNCHANGED <<now, ticks, req>>

ApplyValidateYear ==
    /\ fn = "none"
    /\ fn' = "case_year"
    /\ \E v \in YearInputs :
          /\ arg' = [case_year |-> v, clock |-> now]
          /\ res' = [case_year |-> validate_year(v, now)]
    /\ UNCHANGED <<now, ticks, req>>

ApplyValidateDate ==
    /\ fn = "none"
    /\ fn' = "date"
    /\ \E v \in DateInputs :
          /\ arg' = [date |-> v]
          /\ res' = [date |-> validate_date(v)]
    /\ UNCHANGED <<now, ticks, req>>

Discard ==
    /\ fn # "none"
    /\ fn' = "none"
    /\ arg' = [none |-> TRUE]
    /\ res' = [none |-> TRUE]
    /\ UNCHANGED <<now, ticks, req>>

NextVal ==
    \/ ApplyValidateCnr
    \/ ApplyValidateCaseType
    \/ ApplyValidateYear
    \/ ApplyValidateDate
    \/ Discard
    \/ Tick

SpecVal == Init /\ [][NextVal]_vars

---------------------------------------------------------------------------
(* Properties. *)

\* A record number as the specification words it: 4 letters A-Z, then 12 digits.
WellFormedCnr(t) ==
    /\ Len(t) = 16
    /\ \A i \in 1 .. 4 : IsAZ(t[i])
    /\ \A i \in 5 .. 16 : IsDigit(t[i])

\* A date written DD-MM-YYYY with ten characters, naming a day of the calendar.
StrictDmy(s) ==
    /\ Len(s) = 10
    /\ s[3] = "-"
    /\ s[6] = "-"
    /\ \A i \in {1, 2, 4, 5, 7, 8, 9, 10} : s[i] \in Range(DigitSeq)
    /\ LET d == DigitsValue(SubSeq(s, 1, 2))
           m == DigitsValue(SubSeq(s, 4, 5))
           y == DigitsValue(SubSeq(s, 7, 10))
       IN y >= 1 /\ m \in 1 .. 12 /\ d >= 1 /\ d <= DaysInMonth(y, m)

\* s occurs in t.
Contains(t, s) ==
    \E i \in 1 .. (Len(t) - Len(s) + 1) : SubSeq(t, i, i + Len(s) - 1) = s

Done(r) == req[r].pc = "done"

\* The request on r was refused for its input: by a field validator, by the
\* record-number check of download_case_pdf, or by the 90-day window.
ValidationFailed(r) ==
    /\ Done(r)
    /\ \/ req[r].ended = "parse"
       \/ req[r].route = "/case/download-pdf" /\ ~WellFormedCnr(Upper(Strip(req[r].raw.cnr)))
       \/ /\ req[r].route = "/causelist/download"
          /\ req[r].ended = "handler"
          /\ req[r].resp.status # 200

\* C1: every validation failure on the POST routes is answered with status 400
\* and a body of the three fields error, message and help.
C1_ValidationFailureIs400 ==
    \A r \in Reqs :
        ValidationFailed(r) =>
            /\ req[r].resp.status = 400
            /\ DOMAIN req[r].resp.body = {"error", "message", "help"}

\* C2: the record-number validator succeeds exactly when the trimmed, uppercased
\* input is 4 letters A-Z followed by 12 digits, and then returns that string.
C2_RecordNumberValidator ==
    fn = "cnr" =>
        LET t == Upper(Strip(arg.cnr))
        IN /\ res.body.ok <=> WellFormedCnr(t)
           /\ res.body.ok => res.body.value = t

\* A padded, lowercase record number was accepted and came back normalized.
C2_Witness ==
    /\ fn = "cnr"
    /\ res.body.ok
    /\ res.body.value # arg.cnr
    /\ res.body.value = <<"D","L","S","W","3","6","9","2","5","8","1","4","7","0","3","6">>

\* Whole calendar days from the clock's date to the date.
CalendarDays(date, clock) == ToOrdinal(date) - ToOrdinal(clock.date)

\* C3: a format-valid cause-list date is refused with 400 exactly when it is more
\* than 90 days from the day of the call, before or after, and accepted otherwise.
C3_WindowSymmetric ==
    \A r \in Reqs :
        (Done(r) /\ req[r].route = "/causelist/download" /\ req[r].ended = "handler") =>
            LET far == Abs(CalendarDays(Strptime(req[r].raw.date).date, req[r].hclk)) > 90
            IN /\ far => req[r].resp.status = 400
               /\ ~far => req[r].resp.status = 200

\* C4: the date validator accepts exactly the real calendar dates written with a
\* two-digit day, a two-digit month and a four-digit year, and returns them unchanged.
C4_DateValidatorStrict ==
    fn = "date" =>
        /\ res.date.ok <=> StrictDmy(arg.date)
        /\ res.date.ok => res.date.value = arg.date

\* C5: the case-year validator returns y when 1950 <= y <= c + 1, c the calendar
\* year of the clock at the call, and fails when y < 1950 or y > c + 1.
C5_YearValidator ==
    fn = "case_year" =>
        LET y == arg.case_year
            c == arg.clock.date.y
        IN /\ (1950 <= y /\ y <= c + 1) => (res.case_year.ok /\ res.case_year.value = y)
           /\ (y < 1950 \/ y > c + 1) => ~res.case_year.ok

\* The year after the current one was accepted.
C5_Witness ==
    /\ fn = "case_year"
    /\ arg.case_year = arg.clock.date.y + 1
    /\ res.case_year.ok

\* C6: in both case lookups a timeout of the portal call is answered with 504,
\* and a non-200 portal status or any other exception with 500.
C6_TimeoutIs504 ==
    \A r \in Reqs :
        (Done(r) /\ req[r].ended = "handler"
           /\ req[r].route \in {"/case/cnr", "/case/details"}) =>
            LET o == req[r].outcome
            IN IF o.kind = "raise"
                 THEN IF o.exc.cls \in TimeoutClasses
                        THEN req[r].resp.status = 504
                        ELSE req[r].resp.status = 500
                 ELSE IF o.status_code # 200
                        THEN req[r].resp.status = 500
                        ELSE req[r].resp.status = 200

\* A lookup by record number whose portal call timed out was answered 504.
C6_Witness ==
    \E r \in Reqs :
        /\ Done(r)
        /\ req[r].route = "/case/cnr"
        /\ req[r].ended = "handler"
        /\ req[r].outcome.kind = "raise"
        /\ req[r].outcome.exc.cls = "ReadTimeout"
        /\ req[r].resp.status = 504

\* C7: a portal call is made only for a case lookup all of whose validators
\* succeeded on the request as sent; a request refused in parsing made none.
C7_ValidationBeforeProvider ==
    \A r \in Reqs :
        req[r].pc # "idle" =>
            /\ (req[r].pc = "done" /\ req[r].ended = "parse") => req[r].calls = 0
            /\ req[r].calls > 0 =>
                  \/ /\ req[r].route = "/case/cnr"
                     /\ WellFormedCnr(Upper(Strip(req[r].raw.cnr)))
                  \/ /\ req[r].route = "/case/details"
                     /\ Upper(Strip(req[r].raw.case_type)) # <<>>
                     /\ \A c \in Range(Upper(Strip(req[r].raw.case_type))) : IsAZ(c)
                     /\ req[r].raw.case_year >= 1950
                     /\ req[r].raw.case_year <= req[r].pclk.date.y + 1

\* A lookup by details with a bad case type ended in parsing without a call.
C7_Witness ==
    \E r \in Reqs :
        /\ Done(r)
        /\ req[r].route = "/case/details"
        /\ req[r].ended = "parse"
        /\ req[r].raw.case_type = <<"1","2","3">>
        /\ req[r].calls = 0

\* C8: a successful lookup by details answers the trimmed, uppercased case type,
\* the reference type/number/year, and a court name containing the district.
C8_DetailsReference ==
    \A r \in Reqs :
        (Done(r) /\ req[r].route = "/case/details" /\ req[r].resp.status = 200) =>
            LET t == Upper(Strip(req[r].raw.case_type))
                b == req[r].resp.body
                district == IF "district" \in DOMAIN req[r].raw
                              THEN req[r].raw.district ELSE <<"S","o","u","t","h"," ","W","e","s","t">>
            IN /\ b.case_type = t
               /\ b.case_details.case_reference =
                      t \o <<"/">> \o IntStr(req[r].raw.case_number)
                        \o <<"/">> \o IntStr(req[r].raw.case_year)
               /\ Contains(b.case_details.court_name, district)

\* {"case_type": "arbtn", "case_number": 4, "case_year": 2025} was answered
\* ARBTN/4/2025 at the default district.
C8_Witness ==
    \E r \in Reqs :
        /\ Done(r)
        /\ req[r].route = "/case/details"
        /\ req[r].resp.status = 200
        /\ req[r].raw = [case_type |-> <<"a","r","b","t","n">>, case_number |-> 4, case_year |-> 2025]
        /\ req[r].resp.body.case_details.case_reference = <<"A","R","B","T","N","/","4","/","2","0","2","5">>
        /\ req[r].resp.body.case_details.court_name = <<"D","i","s","t","r","i","c","t"," ","a","n","d"," ","S","e","s","s","i","o","n"," ","J","u","d","g","e",","," ","S","o","u","t","h"," ","W","e","s","t">>

\* C9: document retrieval answers 400 to a malformed record number and otherwise
\* 200 with the fixed "PDF not available" status and the normalized record number,
\* no other field than message, cnr, status and note, and no portal call.
C9_PdfNeverAvailable ==
    \A r \in Reqs :
        (req[r].pc # "idle" /\ req[r].route = "/case/download-pdf") =>
            /\ req[r].calls = 0
            /\ req[r].pc \in {"parsing", "handler", "done"}
            /\ Done(r) =>
                  LET t == Upper(Strip(req[r].raw.cnr))
                  IN IF WellFormedCnr(t)
                       THEN /\ req[r].resp.status = 200
                            /\ DOMAIN req[r].resp.body = {"message", "cnr", "status", "note"}
                            /\ req[r].resp.body.status = "PDF not available for this case"
                            /\ req[r].resp.body.cnr = t
                       ELSE req[r].resp.status = 400

\* A padded, lowercase record number was answered 200 "not available".
C9_Witness ==
    \E r \in Reqs :
        /\ Done(r)
        /\ req[r].route = "/case/download-pdf"
        /\ req[r].resp.status = 200
        /\ req[r].resp.body.cnr # req[r].raw.cnr

\* C10: the validator of /case/cnr and the check of /case/download-pdf accept the
\* same strings and give the same normalized record number.
C10_ValidatorsAgree ==
    fn = "cnr" =>
        /\ res.body.ok <=> res.query.ok
        /\ res.body.ok => res.body.value = res.query.value

\* Both accepted a record number sent with whitespace around it.
C10_Witness ==
    /\ fn = "cnr"
    /\ res.body.ok
    /\ res.query.ok
    /\ Len(arg.cnr) > 16

\* The response to request q handled alone: parsed at the clock q read in parsing,
\* then handled with the outcome of q's own portal call at the clock q read there.
HandledAlone(q) ==
    LET p == ParseRequest(q.route, q.raw, q.pclk)
    IN IF ~p.ok
         THEN ExceptionResponse([cls |-> "RequestValidationError", errors |-> p.errors])
         ELSE CASE q.route = "/case/cnr" -> check_case_by_cnr(p.value, q.outcome, q.hclk)
                [] q.route = "/case/details" -> check_case_by_details(p.value, q.outcome, q.hclk)
                [] q.route = "/case/download-pdf" -> download_case_pdf(p.value.cnr)
                [] q.route = "/causelist/download" -> download_cause_list(p.value, q.hclk)

\* What connection r holds is what its own request alone accounts for.
AsHandledAlone(r) ==
    LET q == req[r]
    IN /\ q.pc \in {"handler", "awaiting"} =>
             LET p == ParseRequest(q.route, q.raw, q.pclk)
             IN p.ok /\ q.parsed = p.value
       /\ q.pc = "done" =>
             /\ q.ended = (IF ParseRequest(q.route, q.raw, q.pclk).ok THEN "handler" ELSE "parse")
             /\ q.resp = HandledAlone(q)

\* A step changes what one connection holds, and neither the clock nor what any
\* other connection holds.
OwnStateOnly ==
    /\ now' = now
    /\ \A r \in Reqs :
          req'[r] # req[r] => \A s \in Reqs \ {r} : req'[s] = req[s]

\* C11: under any interleaving of the connections, the response to each request
\* is the one its own input, the clock it read and the outcome of its own portal
\* call give when it is handled alone, and no step of a request reads or writes
\* what another request holds.
C11_RequestsDoNotInteract ==
    /\ [](\A r \in Reqs : AsHandledAlone(r))
    /\ [][OwnStateOnly]_vars

\* A lookup by record number is answered 200 while another connection, sent a
\* lookup by details, is still waiting for the portal.
C11_Witness ==
    \E r, s \in Reqs :
        /\ r # s
        /\ Done(r)
        /\ req[r].route = "/case/cnr"
        /\ req[r].resp.status = 200
        /\ req[r].resp.body.cnr = Upper(Strip(req[r].raw.cnr))
        /\ req[s].pc = "awaiting"
        /\ req[s].route = "/case/details"

\* The portal call of the request on r failed: it raised, or answered another
\* status than 200.
CallFailed(r) ==
    /\ "outcome" \in DOMAIN req[r]
    /\ \/ req[r].outcome.kind = "raise"
       \/ req[r].outcome.status_code # 200

\* The request on r made at most one portal call, and if it is finished it has
\* a success payload or an error with a status code, an error when its call failed.
OneCallOneResponse(r) ==
    LET q == req[r]
    IN /\ q.pc # "idle" => q.calls <= 1
       /\ q.pc = "awaiting" => q.calls = 1
       /\ q.pc = "done" =>
             /\ \/ q.resp.status = 200 /\ "detail" \notin DOMAIN q.resp.body
                \/ q.resp.status \in {400, 422, 500, 504} /\ DOMAIN q.resp.body = {"detail"}
             /\ CallFailed(r) => (q.resp.status \in {500, 504} /\ q.calls = 1)

\* A request that waits for the portal goes on to its end only, and a finished
\* request keeps its response until that is sent and the connection is free.
NoSecondAttempt ==
    \A r \in Reqs :
        /\ req[r].pc = "awaiting" => req'[r].pc \in {"awaiting", "done"}
        /\ req[r].pc = "done" => (req'[r] = req[r] \/ req'[r] = IdleReq)

\* C12: each request makes at most one portal call and ends with one response,
\* a success payload or an error with a status code; after a failed portal call
\* it ends with an error response and makes no second call.
C12_NoRetryNoSwallow ==
    /\ [](\A r \in Reqs : OneCallOneResponse(r))
    /\ [][NoSecondAttempt]_vars
    /\ (req[1].pc = "parsing") ~> (req[1].pc = "done")
    /\ (req[1].pc = "done") ~> (req[1].pc = "idle")

\* A lookup whose portal call failed with a connection error ended with the 500
\* response after that one call.
C12_Witness ==
    /\ Done(1)
    /\ req[1].route = "/case/details"
    /\ req[1].calls = 1
    /\ req[1].outcome = [kind |-> "raise", exc |-> [cls |-> "ConnectError"]]
    /\ req[1].resp.status = 500

===========================================================================
